---- MODULE Spec2Model ----
(***************************************************************************)
(* Model of the GitHub provider of pipelines-as-code:                      *)
(*   - pkg/provider/github/status.go: Provider.CreateStatus and its two    *)
(*     backends (check-run API with the CheckRunIDS cache, commit-status   *)
(*     API plus pull-request comment);                                     *)
(*   - pkg/provider/github/app/token.go: Install.GetAndUpdateInstallationID*)
(*     and Install.listRepos.                                              *)
(* Every remote call is one atomic step that nondeterministically succeeds *)
(* or fails; the local computation before it belongs to the same step.     *)
(***************************************************************************)
EXTENDS Integers, Sequences, FiniteSets, TLC

\* ------------------------------------------------------------------ bounds
MaxRuns == 2        \* pipeline runs (distinct PipelineRunName values)
MaxCalls == 2       \* CreateStatus calls begun in one behaviour
MaxInstallations == 3  \* installations of the App, and length of their list
MaxClock == 6       \* ticks of the clock in one behaviour
TicksPerSecond == 2 \* ticks of the clock in a second

\* --------------------------------------------------------------- constants
Nil == "<nil>"      \* a nil pointer / unset optional request field
NoID == 0           \* nil *int64 check-run id, and "no cache entry"

NoToken == ""      \* the empty token string
NoReturn == [err |-> "pending"]

Workers == {"g1", "g2"}  \* goroutines that may call CreateStatus
Caller == "g1"      \* the goroutine of a caller that makes one call at a time
Names == 1..MaxRuns \* PipelineRunName values; run n is named n

\* The event that triggered run n carries the SHA of that run's commit; runs
\* 1 and 2 are on the same commit, run 3 on another.
ShaOf(n) == (n + 1) \div 2
\* status.OriginalPipelineRunName and status.DetailsURL of run n (the first
\* run has neither).
OrigNameOf(n) == IF n = 1 THEN "" ELSE "orig"
DetailsURLOf(n) == IF n = 1 THEN "" ELSE "url"

Statuses == {"queued", "in_progress", "completed"}
Conclusions == {"success", "failure", "skipped", "neutral", "pending", ""}
CallerTitles == {"", "caller"}
Texts == {"", "text"}
EventTypes == {"pull_request", "push"}

\* pacopts: the configuration of the controller.
PacOpts == [ApplicationName |-> "PAC", LogURL |-> "logurl"]

\* provider.StatusOpts as the caller passes it.
StatusOptsSet ==
    { [PipelineRunName |-> n, OriginalPipelineRunName |-> OrigNameOf(n),
       Status |-> s, Conclusion |-> c, Title |-> t, Summary |-> t,
       Text |-> x, DetailsURL |-> DetailsURLOf(n)] :
        n \in Names, s \in Statuses, c \in Conclusions, t \in CallerTitles,
        x \in Texts }

\* info.Event: the fields CreateStatus reads.
EventOf(n, f, e) == [SHA |-> ShaOf(n), InfoFromRepo |-> f, EventType |-> e]

NoOpts == [PipelineRunName |-> 0]
NoClaims == [Issuer |-> 0]
NoEvent == [SHA |-> 0]

VARIABLES
    Client,       \* v.Client # nil
    CheckRunIDS,  \* v.CheckRunIDS: PipelineRunName -> check-run id, NoID = absent
    checkRuns,    \* remote: the App's check runs (the fields the lookup reads),
                  \* checkRuns[i] has id i
    nPre,         \* number of check runs the remote held before this client
    ncalls,       \* CreateStatus calls begun
    pc,           \* per worker: position in CreateStatus
    arg,          \* per worker: statusOpts as passed by the caller
    statusOpts,   \* per worker: the callee's copy of statusOpts
    runevent,     \* per worker: the event of the call
    checkRunID,   \* per worker: local checkRunID
    trace,        \* per worker: remote calls issued by the current call, in order
    err           \* per worker: the error the call returned ("nil" = no error)

svars == <<Client, CheckRunIDS, checkRuns, nPre, ncalls, pc, arg, statusOpts,
           runevent, checkRunID, trace, err>>

VARIABLES
    installationData, \* the installation list the remote answers with (ids)
    hostHeader,       \* request header X-GitHub-Enterprise-Host
    repoAccess,       \* remote: what each client identity can list
    clientInst,       \* installation whose token ip.ghClient carries, 0 = none
    ipc,              \* position in GetAndUpdateInstallationID
    idx,              \* loop index i (1-based)
    enterpriseHost,   \* local enterpriseHost
    token,            \* local token
    installationID,   \* local installationID
    repoList,         \* ip.repoList, Nil until fetched
    exchanges,        \* installation ids GetAppToken was called for, in order
    fetches,          \* number of github.ListRepos calls
    foundAt,          \* position at which the target was first found, 0 = none
    itrace,           \* remote calls issued by the call, in order
    ret               \* what the call returned

ivars == <<installationData, hostHeader, repoAccess, clientInst, ipc, idx,
           enterpriseHost, token, installationID, repoList, exchanges, fetches,
           foundAt, itrace, ret>>

VARIABLES
    now,            \* the wall clock time.Now() reads, in ticks
    jpc,            \* position in GenerateJWT
    expirationTime, \* local expirationTime, in ticks
    claims,         \* local claims, NoClaims until built
    jret            \* what GenerateJWT returned

jvars == <<now, jpc, expirationTime, claims, jret>>

vars == <<svars, ivars, jvars>>

\* ------------------------------------------------------- pure functions

\* status.go:28-36
getCheckName(status, pacopts) ==
    IF pacopts.ApplicationName # ""
    THEN IF status.OriginalPipelineRunName = ""
         THEN pacopts.ApplicationName
         ELSE pacopts.ApplicationName \o " / " \o status.OriginalPipelineRunName
    ELSE status.OriginalPipelineRunName

\* the switch with a case for "pending" as well
ConclusionTitleWithPending(o) ==
    CASE o.Conclusion = "success" ->
            [o EXCEPT !.Title = "Success",
                      !.Summary = "has <b>successfully</b> validated your commit."]
      [] o.Conclusion = "failure" ->
            [o EXCEPT !.Title = "Failed", !.Summary = "has <b>failed</b>."]
      [] o.Conclusion = "skipped" ->
            [o EXCEPT !.Title = "Skipped", !.Summary = "is skipping this commit."]
      [] o.Conclusion = "neutral" ->
            [o EXCEPT !.Title = "Unknown",
                      !.Summary = "doesn't know what happened with this commit."]
      [] o.Conclusion = "pending" ->
            [o EXCEPT !.Title = "Pending", !.Summary = "is pending."]
      [] OTHER -> o

\* status.go:174-187: the switch on statusOpts.Conclusion
ConclusionTitle(o) ==
    CASE o.Conclusion = "success" ->
            [o EXCEPT !.Title = "Success",
                      !.Summary = "has <b>successfully</b> validated your commit."]
      [] o.Conclusion = "failure" ->
            [o EXCEPT !.Title = "Failed", !.Summary = "has <b>failed</b>."]
      [] o.Conclusion = "skipped" ->
            [o EXCEPT !.Title = "Skipped", !.Summary = "is skipping this commit."]
      [] o.Conclusion = "neutral" ->
            [o EXCEPT !.Title = "Unknown",
                      !.Summary = "doesn't know what happened with this commit."]
      [] OTHER -> o

\* the in_progress title set only where no title was set yet
InProgressTitleIfUnset(o) ==
    IF o.Status = "in_progress" /\ o.Title = ""
    THEN [o EXCEPT !.Title = "CI has Started", !.Summary = "is running."]
    ELSE o

\* status.go:189-192
InProgressTitle(o) ==
    IF o.Status = "in_progress"
    THEN [o EXCEPT !.Title = "CI has Started", !.Summary = "is running."]
    ELSE o

\* status.go:194-198
SummaryLine(o, pacopts) ==
    LET onPr == IF o.OriginalPipelineRunName # ""
                THEN "/" \o o.OriginalPipelineRunName ELSE ""
    IN [o EXCEPT !.Summary = pacopts.ApplicationName \o onPr \o " " \o o.Summary]

\* status.go:174-198: title and summary as CreateStatus hands them on
DeriveStatusOpts(o, pacopts) ==
    SummaryLine(InProgressTitle(ConclusionTitle(o)), pacopts)

\* status.go:46-56: the scan of the listed check runs; res is the sequence of
\* [ID, ExternalID] the remote returned
ExistingCheckRunID(res, name) ==
    IF Len(res) = 0 THEN NoID
    ELSE LET hits == { i \in 1..Len(res) : res[i].ExternalID = name }
         IN IF hits = {} THEN NoID
            ELSE res[CHOOSE i \in hits : \A j \in hits : i <= j].ID

\* status.go:61-68
CreateCheckRunOptions(status, ev, pacopts) ==
    [Name |-> getCheckName(status, pacopts), HeadSHA |-> ev.SHA,
     Status |-> "in_progress", DetailsURL |-> pacopts.LogURL,
     ExternalID |-> status.PipelineRunName, StartedAt |-> "now"]

\* IsFinished without the "pending" test
IsFinishedNoPending(status) == status.Conclusion # ""

\* status.go:118: the test that guards CompletedAt and Conclusion
IsFinished(status) == status.Conclusion # "" /\ status.Conclusion # "pending"

\* status.go:101-121
UpdateCheckRunOptions(status, pacopts) ==
    [Name |-> getCheckName(status, pacopts), Status |-> status.Status,
     Output |-> [Title |-> status.Title, Summary |-> status.Summary,
                 Text |-> status.Text],
     DetailsURL |-> IF status.DetailsURL # "" THEN status.DetailsURL ELSE Nil,
     CompletedAt |-> IF IsFinished(status) THEN "now" ELSE Nil,
     Conclusion |-> IF IsFinished(status) THEN status.Conclusion ELSE Nil]

\* CommitConclusion with the in_progress test made before the switch, where
\* the switch then overwrites its result
CommitConclusionSwitchLast(status) ==
    LET c == IF status.Status = "in_progress" THEN "pending" ELSE status.Conclusion
    IN CASE status.Conclusion = "skipped" -> "success"
         [] status.Conclusion = "neutral" -> "success"
         [] OTHER -> c

\* status.go:132-140: the conclusion the commit-status API can carry
CommitConclusion(status) ==
    LET c == CASE status.Conclusion = "skipped" -> "success"
               [] status.Conclusion = "neutral" -> "success"
               [] OTHER -> status.Conclusion
    IN IF status.Status = "in_progress" THEN "pending" ELSE c

\* status.go:142-148
RepoStatus(status, pacopts) ==
    [State |-> CommitConclusion(status), TargetURL |-> status.DetailsURL,
     Description |-> status.Title, Context |-> getCheckName(status, pacopts),
     CreatedAt |-> "now"]

\* WantsComment without the event-type test
WantsCommentAnyEvent(status, ev) ==
    status.Status = "completed" /\ status.Text # ""

\* status.go:154
WantsComment(status, ev) ==
    status.Status = "completed" /\ status.Text # "" /\ ev.EventType = "pull_request"

\* status.go:157-159
IssueComment(status) == [Body |-> status.Summary \o "<br>" \o status.Text]

\* ---------------------------------------------------------------- remote

\* Checks.ListCheckRunsForRef: the App's check runs on the commit
ListCheckRunsForRef(sha) ==
    LET ids == { i \in 1..Len(checkRuns) : checkRuns[i].HeadSHA = sha }
        F[S \in SUBSET ids] ==
            IF S = {} THEN <<>>
            ELSE LET m == CHOOSE i \in S : \A j \in S : i <= j
                 IN <<[ID |-> m, ExternalID |-> checkRuns[m].ExternalID]>>
                    \o F[S \ {m}]
    IN F[ids]

\* the check runs a previous provider client may have left on the remote: at
\* most one per pipeline run
PreExisting ==
    LET Pick[n \in 0..MaxRuns] ==
            IF n = 0 THEN {<<>>}
            ELSE LET rest == Pick[n - 1]
                 IN rest \cup
                    { Append(s, [ExternalID |-> n, HeadSHA |-> ShaOf(n)]) :
                        s \in rest }
    IN Pick[MaxRuns]

Idle(w) == pc[w] = "idle"

\* ------------------------------------------------------------------ init
\* no GetAndUpdateInstallationID call is in flight
InstallIdle ==
    /\ installationData = <<>>
    /\ hostHeader = ""
    /\ repoAccess = <<{}, <<>>>>
    /\ clientInst = 0
    /\ ipc = "idle"
    /\ idx = 0
    /\ enterpriseHost = ""
    /\ token = NoToken
    /\ installationID = 0
    /\ repoList = Nil
    /\ exchanges = <<>>
    /\ fetches = 0
    /\ foundAt = 0
    /\ itrace = <<>>
    /\ ret = NoReturn

\* no GenerateJWT call is in flight
JWTIdle ==
    /\ now = 0
    /\ jpc = "idle"
    /\ expirationTime = 0
    /\ claims = NoClaims
    /\ jret = NoReturn

Init ==
    /\ InstallIdle
    /\ JWTIdle
    /\ Client \in BOOLEAN
    /\ CheckRunIDS = [n \in Names |-> NoID]
    /\ checkRuns \in PreExisting
    /\ nPre = Len(checkRuns)
    /\ ncalls = 0
    /\ pc = [w \in Workers |-> "idle"]
    /\ arg = [w \in Workers |-> NoOpts]
    /\ statusOpts = [w \in Workers |-> NoOpts]
    /\ runevent = [w \in Workers |-> NoEvent]
    /\ checkRunID = [w \in Workers |-> NoID]
    /\ trace = [w \in Workers |-> <<>>]
    /\ err = [w \in Workers |-> "nil"]

\* --------------------------------------------------------------- actions

Called(api, ok, req) == [api |-> api, ok |-> ok, req |-> req]

\* CreateStatus without its test of the client
ClientNeverNil == FALSE

\* status.go:170: v.Client == nil
ClientIsNil == ~Client

\* a dispatch that always takes the check-run path
NeverCommitStatus(ev) == FALSE

\* status.go:200: the test that selects the commit-status backend
UsesCommitStatus(ev) == ev.InfoFromRepo

\* status.go:169-204: entry of CreateStatus up to the backend dispatch
CreateStatus(w, o, ev) ==
    /\ pc[w] = "idle"
    /\ ncalls < MaxCalls
    /\ ncalls' = ncalls + 1
    /\ arg' = [arg EXCEPT ![w] = o]
    /\ runevent' = [runevent EXCEPT ![w] = ev]
    /\ IF ClientIsNil
       THEN /\ err' = [err EXCEPT ![w] = "no client"]
            /\ pc' = [pc EXCEPT ![w] = "done"]
            /\ statusOpts' = [statusOpts EXCEPT ![w] = o]
       ELSE /\ statusOpts' = [statusOpts EXCEPT ![w] = DeriveStatusOpts(o, PacOpts)]
            /\ pc' = [pc EXCEPT ![w] =
                        IF UsesCommitStatus(ev) THEN "createStatusCommit"
                        ELSE "Load"]
            /\ UNCHANGED err
    /\ UNCHANGED <<ivars, jvars>>
    /\ UNCHANGED <<Client, CheckRunIDS, checkRuns, nPre, checkRunID, trace>>

\* status.go:84-91: v.CheckRunIDS.Load
Load(w) ==
    /\ pc[w] = "Load"
    /\ LET hit == CheckRunIDS[statusOpts[w].PipelineRunName] # NoID
       IN /\ checkRunID' = [checkRunID EXCEPT ![w] =
                              CheckRunIDS[statusOpts[w].PipelineRunName]]
          /\ pc' = [pc EXCEPT ![w] = IF hit THEN "Store" ELSE "getExistingCheckRunID"]
    /\ UNCHANGED <<ivars, jvars>>
    /\ UNCHANGED <<Client, CheckRunIDS, checkRuns, nPre, ncalls, arg, statusOpts,
                   runevent, trace, err>>

\* status.go:92 with 38-57: the lookup on the remote; its error is dropped
getExistingCheckRunID(w, ok) ==
    /\ pc[w] = "getExistingCheckRunID"
    /\ LET res == ListCheckRunsForRef(runevent[w].SHA)
           id == IF ok THEN ExistingCheckRunID(res, statusOpts[w].PipelineRunName)
                 ELSE NoID
       IN /\ checkRunID' = [checkRunID EXCEPT ![w] = id]
          /\ pc' = [pc EXCEPT ![w] =
                      IF id = NoID THEN "createCheckRunStatus" ELSE "Store"]
    /\ trace' = [trace EXCEPT ![w] =
                   Append(@, Called("ListCheckRunsForRef", ok,
                                    [SHA |-> runevent[w].SHA]))]
    /\ UNCHANGED <<ivars, jvars>>
    /\ UNCHANGED <<Client, CheckRunIDS, checkRuns, nPre, ncalls, arg, statusOpts,
                   runevent, err>>

\* status.go:93-96 with 59-75
createCheckRunStatus(w, ok) ==
    /\ pc[w] = "createCheckRunStatus"
    /\ LET req == CreateCheckRunOptions(statusOpts[w], runevent[w], PacOpts)
       IN /\ trace' = [trace EXCEPT ![w] = Append(@, Called("CreateCheckRun", ok, req))]
          /\ IF ok
             THEN /\ checkRuns' = Append(checkRuns,
                        [ExternalID |-> req.ExternalID, HeadSHA |-> req.HeadSHA])
                  /\ checkRunID' = [checkRunID EXCEPT ![w] = Len(checkRuns) + 1]
                  /\ pc' = [pc EXCEPT ![w] = "Store"]
                  /\ UNCHANGED err
             ELSE /\ err' = [err EXCEPT ![w] = "CreateCheckRun"]
                  /\ pc' = [pc EXCEPT ![w] = "done"]
                  /\ UNCHANGED <<checkRuns, checkRunID>>
    /\ UNCHANGED <<ivars, jvars>>
    /\ UNCHANGED <<Client, CheckRunIDS, nPre, ncalls, arg, statusOpts, runevent>>

\* a Store that leaves the cache entry as it was
StoredNothing(w) == CheckRunIDS[statusOpts[w].PipelineRunName]

\* status.go:99: the value Store puts in the cache
StoredID(w) == checkRunID[w]

\* status.go:99: v.CheckRunIDS.Store
Store(w) ==
    /\ pc[w] = "Store"
    /\ CheckRunIDS' = [CheckRunIDS EXCEPT ![statusOpts[w].PipelineRunName] =
                         StoredID(w)]
    /\ pc' = [pc EXCEPT ![w] = "UpdateCheckRun"]
    /\ UNCHANGED <<ivars, jvars>>
    /\ UNCHANGED <<Client, checkRuns, nPre, ncalls, arg, statusOpts, runevent,
                   checkRunID, trace, err>>

\* status.go:101-124
UpdateCheckRun(w, ok) ==
    /\ pc[w] = "UpdateCheckRun"
    /\ LET opts == UpdateCheckRunOptions(statusOpts[w], PacOpts)
       IN /\ trace' = [trace EXCEPT ![w] =
                Append(@, Called("UpdateCheckRun", ok,
                                 [ID |-> checkRunID[w], opts |-> opts]))]
    /\ err' = [err EXCEPT ![w] = IF ok THEN "nil" ELSE "UpdateCheckRun"]
    /\ pc' = [pc EXCEPT ![w] = "done"]
    /\ UNCHANGED <<ivars, jvars>>
    /\ UNCHANGED <<Client, CheckRunIDS, checkRuns, nPre, ncalls, arg, statusOpts,
                   runevent, checkRunID>>

\* status.go:129-153: Repositories.CreateStatus
createStatusCommit(w, ok) ==
    /\ pc[w] = "createStatusCommit"
    /\ trace' = [trace EXCEPT ![w] =
            Append(@, Called("CreateStatus", ok, RepoStatus(statusOpts[w], PacOpts)))]
    /\ statusOpts' = [statusOpts EXCEPT ![w].Conclusion =
                                           CommitConclusion(statusOpts[w])]
    /\ IF ~ok
       THEN /\ err' = [err EXCEPT ![w] = "CreateStatus"]
            /\ pc' = [pc EXCEPT ![w] = "done"]
       ELSE IF WantsComment(statusOpts[w], runevent[w])
            THEN /\ pc' = [pc EXCEPT ![w] = "CreateComment"]
                 /\ UNCHANGED err
            ELSE /\ err' = [err EXCEPT ![w] = "nil"]
                 /\ pc' = [pc EXCEPT ![w] = "done"]
    /\ UNCHANGED <<ivars, jvars>>
    /\ UNCHANGED <<Client, CheckRunIDS, checkRuns, nPre, ncalls, arg, runevent,
                   checkRunID>>

\* status.go:154-166: Issues.CreateComment
CreateComment(w, ok) ==
    /\ pc[w] = "CreateComment"
    /\ trace' = [trace EXCEPT ![w] =
            Append(@, Called("CreateComment", ok, IssueComment(statusOpts[w])))]
    /\ err' = [err EXCEPT ![w] = IF ok THEN "nil" ELSE "CreateComment"]
    /\ pc' = [pc EXCEPT ![w] = "done"]
    /\ UNCHANGED <<ivars, jvars>>
    /\ UNCHANGED <<Client, CheckRunIDS, checkRuns, nPre, ncalls, arg, statusOpts,
                   runevent, checkRunID>>

\* the call has returned to its caller: its frame is gone
Return(w) ==
    /\ pc[w] = "done"
    /\ pc' = [pc EXCEPT ![w] = "idle"]
    /\ arg' = [arg EXCEPT ![w] = NoOpts]
    /\ statusOpts' = [statusOpts EXCEPT ![w] = NoOpts]
    /\ runevent' = [runevent EXCEPT ![w] = NoEvent]
    /\ checkRunID' = [checkRunID EXCEPT ![w] = NoID]
    /\ trace' = [trace EXCEPT ![w] = <<>>]
    /\ err' = [err EXCEPT ![w] = "nil"]
    /\ UNCHANGED <<ivars, jvars>>
    /\ UNCHANGED <<Client, CheckRunIDS, checkRuns, nPre, ncalls>>

\* a caller that issues its calls one after the other
CreateStatusSeq ==
    /\ pc[Caller] = "idle"
    /\ \E o \in StatusOptsSet : \E f \in BOOLEAN : \E e \in EventTypes :
          CreateStatus(Caller, o, EventOf(o.PipelineRunName, f, e))

Next ==
    \/ CreateStatusSeq
    \/ \E w \in Workers : Load(w)
    \/ \E w \in Workers : \E ok \in BOOLEAN : getExistingCheckRunID(w, ok)
    \/ \E w \in Workers : \E ok \in BOOLEAN : createCheckRunStatus(w, ok)
    \/ \E w \in Workers : Store(w)
    \/ \E w \in Workers : \E ok \in BOOLEAN : UpdateCheckRun(w, ok)
    \/ \E w \in Workers : \E ok \in BOOLEAN : createStatusCommit(w, ok)
    \/ \E w \in Workers : \E ok \in BOOLEAN : CreateComment(w, ok)
    \/ \E w \in Workers : Return(w)

Spec == Init /\ [][Next]_vars

\* ------------------------------------------------- concurrent callers

\* the status writes concurrent goroutines issue: both backends, a run that
\* has started and a run that has succeeded
ConcStatusOpts ==
    { o \in StatusOptsSet :
        /\ o.Title = ""
        /\ <<o.Status, o.Conclusion>> \in
              {<<"in_progress", "">>, <<"completed", "success">>} }

\* a call begun by any goroutine, whatever the others are doing
CreateStatusConc ==
    \E w \in Workers :
       /\ pc[w] = "idle"
       /\ \E o \in ConcStatusOpts : \E f \in BOOLEAN :
             CreateStatus(w, o, EventOf(o.PipelineRunName, f, "pull_request"))

NextConc ==
    \/ CreateStatusConc
    \/ \E w \in Workers : Load(w)
    \/ \E w \in Workers : \E ok \in BOOLEAN : getExistingCheckRunID(w, ok)
    \/ \E w \in Workers : \E ok \in BOOLEAN : createCheckRunStatus(w, ok)
    \/ \E w \in Workers : Store(w)
    \/ \E w \in Workers : \E ok \in BOOLEAN : UpdateCheckRun(w, ok)
    \/ \E w \in Workers : \E ok \in BOOLEAN : createStatusCommit(w, ok)
    \/ \E w \in Workers : \E ok \in BOOLEAN : CreateComment(w, ok)
    \/ \E w \in Workers : Return(w)

SpecConc == Init /\ [][NextConc]_vars

\* ------------------------------------------------ installation resolver

NullID == -1        \* Installation.ID == nil
TargetURL == "https://github.com/org/target"   \* ip.repo.Spec.URL
OtherURL == "https://github.com/org/other"
Hosts == {"", "ghe.example.com"}
StatusCodes == {200, 299, 300, 404}

\* the ids a record of the installation list can carry
InstallationIDs == {NullID} \cup (0..MaxInstallations)

\* installation lists: no id twice
InstallationLists ==
    UNION { { l \in [1..n -> InstallationIDs] :
                \A i, j \in 1..n : l[i] = l[j] => i = j } :
            n \in 0..MaxInstallations }

\* what the remote lets each client identity list: the identities in owners
\* see the target repository, and all see the repositories in rest
RepoAccesses ==
    { <<owners, rest>> : owners \in SUBSET (0..MaxInstallations),
                         rest \in {<<>>, <<OtherURL>>} }

TokenOf(id) == "ghs_" \o ToString(id)

\* github.ListRepos(ctx, ip.ghClient): the repositories the client can access
\* with the token it carries
ListRepos ==
    IF clientInst \in repoAccess[1] THEN repoAccess[2] \o <<TargetURL>>
    ELSE repoAccess[2]

\* token.go:113-119: the scan of the repository list
RepoListed(list, url) == \E i \in 1..Len(list) : list[i] = url

\* the status test with 300 itself let through
IsNonOKAbove(statusCode) == statusCode > 300

\* token.go:65
IsNonOK(statusCode) == statusCode >= 300

Returned(host, tok, id, e) == [host |-> host, token |-> tok, id |-> id, err |-> e]

\* token.go:50,62,66,72,77,85,90,95: return "", "", 0, err
ReturnError(e) ==
    /\ ret' = Returned("", NoToken, 0, e)
    /\ ipc' = "returned"

InitInstall ==
    /\ Client = TRUE
    /\ CheckRunIDS = [n \in Names |-> NoID]
    /\ checkRuns = <<>>
    /\ nPre = 0
    /\ ncalls = 0
    /\ pc = [w \in Workers |-> "idle"]
    /\ arg = [w \in Workers |-> NoOpts]
    /\ statusOpts = [w \in Workers |-> NoOpts]
    /\ runevent = [w \in Workers |-> NoEvent]
    /\ checkRunID = [w \in Workers |-> NoID]
    /\ trace = [w \in Workers |-> <<>>]
    /\ err = [w \in Workers |-> "nil"]
    /\ installationData \in InstallationLists
    /\ hostHeader \in Hosts
    /\ repoAccess \in RepoAccesses
    /\ clientInst = 0
    /\ ipc = "GenerateJWT"
    /\ idx = 0
    /\ enterpriseHost = ""
    /\ token = NoToken
    /\ installationID = 0
    /\ repoList = Nil
    /\ exchanges = <<>>
    /\ fetches = 0
    /\ foundAt = 0
    /\ itrace = <<>>
    /\ ret = NoReturn
    /\ JWTIdle

\* token.go:48-58: the JWT, the installation URL and the host header
GenerateJWT(ok) ==
    /\ ipc = "GenerateJWT"
    /\ IF ok
       THEN /\ enterpriseHost' = hostHeader
            /\ ipc' = "GetReponse"
            /\ UNCHANGED ret
       ELSE /\ ReturnError("GenerateJWT")
            /\ UNCHANGED enterpriseHost
    /\ UNCHANGED <<installationData, hostHeader, itrace, repoAccess, clientInst,
                   idx,
                   token, installationID, repoList, exchanges, fetches, foundAt>>
    /\ UNCHANGED <<svars, jvars>>

\* token.go:60-67: the request for the installation list answers with a
\* status code, or fails (code = 0)
GetReponse(code) ==
    /\ ipc = "GetReponse"
    /\ itrace' = Append(itrace, Called("GetReponse", code # 0,
                                       [StatusCode |-> code]))
    /\ IF code = 0 THEN ReturnError("GetReponse")
       ELSE IF IsNonOK(code) THEN ReturnError("Non-OK HTTP status")
       ELSE ipc' = "Unmarshal" /\ UNCHANGED ret
    /\ UNCHANGED <<installationData, hostHeader, repoAccess, clientInst, idx,
                   enterpriseHost, token, installationID, repoList, exchanges,
                   fetches, foundAt>>
    /\ UNCHANGED <<svars, jvars>>

\* token.go:69-78: io.ReadAll and json.Unmarshal
Unmarshal(ok) ==
    /\ ipc = "Unmarshal"
    /\ IF ok THEN ipc' = "Loop" /\ idx' = 1 /\ UNCHANGED ret
       ELSE ReturnError("Unmarshal") /\ UNCHANGED idx
    /\ UNCHANGED <<installationData, hostHeader, itrace, repoAccess, clientInst,
                   enterpriseHost, token, installationID, repoList, exchanges,
                   fetches, foundAt>>
    /\ UNCHANGED <<svars, jvars>>

\* an installation record is never taken to lack its id
IDNeverNil(id) == FALSE

\* token.go:84
IDIsNil(id) == id = NullID

\* the result of a scan without match, its token dropped
ScanResultNoToken == Returned(enterpriseHost, NoToken, installationID, "nil")

\* token.go:102: the values returned at the end of the scan
ScanResult == Returned(enterpriseHost, token, installationID, "nil")

\* no installation has its token exchanged
NeverExchange(id) == FALSE

\* token.go:87
NeedsExchange(id) == id # 0

\* token.go:83-87 and 102: the head of one iteration, or the end of the scan
Loop ==
    /\ ipc = "Loop"
    /\ IF idx > Len(installationData)
       THEN /\ ret' = ScanResult
            /\ ipc' = "returned"
       ELSE IF IDIsNil(installationData[idx])
       THEN ReturnError("installation ID is nil")
       ELSE /\ ipc' = IF NeedsExchange(installationData[idx])
                      THEN "GetAppToken" ELSE "listRepos"
            /\ UNCHANGED ret
    /\ UNCHANGED <<installationData, hostHeader, itrace, repoAccess, clientInst,
                   idx,
                   enterpriseHost, token, installationID, repoList, exchanges,
                   fetches, foundAt>>
    /\ UNCHANGED <<svars, jvars>>

\* token.go:88-91: the token exchange; the client carries the new token
GetAppToken(ok) ==
    /\ ipc = "GetAppToken"
    /\ exchanges' = Append(exchanges, installationData[idx])
    /\ itrace' = Append(itrace, Called("GetAppToken", ok,
                                       [ID |-> installationData[idx]]))
    /\ IF ok
       THEN /\ token' = TokenOf(installationData[idx])
            /\ clientInst' = installationData[idx]
            /\ ipc' = "listRepos"
            /\ UNCHANGED ret
       ELSE /\ ReturnError("GetAppToken")
            /\ UNCHANGED <<token, clientInst>>
    /\ UNCHANGED <<installationData, hostHeader, repoAccess, idx, enterpriseHost,
                   installationID, repoList, fetches, foundAt>>
    /\ UNCHANGED <<svars, jvars>>

\* the match recorded, and the scan going on to the next installation
FoundNoBreak ==
    /\ installationID' = installationData[idx]
    /\ idx' = idx + 1
    /\ ipc' = "Loop"
    /\ UNCHANGED ret

\* token.go:97-102: the match ends the scan
Found ==
    /\ installationID' = installationData[idx]
    /\ ret' = Returned(enterpriseHost, token, installationData[idx], "nil")
    /\ ipc' = "returned"
    /\ UNCHANGED idx

\* the repository list fetched at every call of listRepos
AlwaysFetch == TRUE

\* token.go:106: ip.repoList == nil
NeedsFetch == repoList = Nil

\* token.go:93-100 with 105-120: the repository list, fetched while
\* ip.repoList is nil, and the test for the target repository
listRepos(ok) ==
    /\ ipc = "listRepos"
    /\ ~NeedsFetch => ok
    /\ fetches' = IF NeedsFetch THEN fetches + 1 ELSE fetches
    /\ itrace' = IF NeedsFetch
                 THEN Append(itrace, Called("ListRepos", ok,
                                            [client |-> clientInst]))
                 ELSE itrace
    /\ IF ~ok
       THEN /\ ReturnError("ListRepos")
            /\ UNCHANGED <<repoList, installationID, idx, foundAt>>
       ELSE LET list == IF NeedsFetch THEN ListRepos ELSE repoList
            IN /\ repoList' = list
               /\ IF RepoListed(list, TargetURL)
                  THEN /\ foundAt' = IF foundAt = 0 THEN idx ELSE foundAt
                       /\ Found
                  ELSE /\ idx' = idx + 1
                       /\ ipc' = "Loop"
                       /\ UNCHANGED <<installationID, ret, foundAt>>
    /\ UNCHANGED <<installationData, hostHeader, repoAccess, clientInst,
                   enterpriseHost, token, exchanges>>
    /\ UNCHANGED <<svars, jvars>>

NextInstall ==
    \/ \E ok \in BOOLEAN : GenerateJWT(ok)
    \/ \E code \in StatusCodes \cup {0} : GetReponse(code)
    \/ \E ok \in BOOLEAN : Unmarshal(ok)
    \/ Loop
    \/ \E ok \in BOOLEAN : GetAppToken(ok)
    \/ \E ok \in BOOLEAN : listRepos(ok)

SpecInstall == InitInstall /\ [][NextInstall]_vars

\* ------------------------------------------------------------ JWT signer

\* token.go:139: 5 * time.Minute, in seconds
JWTLifetime == 300

\* the application ID the secret holds
ApplicationID == 1

\* jwt.NewNumericDate: the time truncated to the second, as Unix seconds
NewNumericDate(t) == t \div TicksPerSecond

JWTReturned(tok, e) == [token |-> tok, err |-> e]

\* a GenerateJWT call begins; no status write and no installation scan runs
InitJWT ==
    /\ Client = TRUE
    /\ CheckRunIDS = [n \in Names |-> NoID]
    /\ checkRuns = <<>>
    /\ nPre = 0
    /\ ncalls = 0
    /\ pc = [w \in Workers |-> "idle"]
    /\ arg = [w \in Workers |-> NoOpts]
    /\ statusOpts = [w \in Workers |-> NoOpts]
    /\ runevent = [w \in Workers |-> NoEvent]
    /\ checkRunID = [w \in Workers |-> NoID]
    /\ trace = [w \in Workers |-> <<>>]
    /\ err = [w \in Workers |-> "nil"]
    /\ InstallIdle
    /\ now = 0
    /\ jpc = "GetAppIDAndPrivateKey"
    /\ expirationTime = 0
    /\ claims = NoClaims
    /\ jret = NoReturn

\* time passes while the call runs
ClockTick ==
    /\ jpc \notin {"idle", "returned"}
    /\ now < MaxClock
    /\ now' = now + 1
    /\ UNCHANGED <<jpc, expirationTime, claims, jret>>
    /\ UNCHANGED <<svars, ivars>>

\* token.go:129-134
GetAppIDAndPrivateKey(ok) ==
    /\ jpc = "GetAppIDAndPrivateKey"
    /\ IF ok
       THEN /\ jpc' = "expirationTime"
            /\ UNCHANGED jret
       ELSE /\ jret' = JWTReturned("", "GetAppIDAndPrivateKey")
            /\ jpc' = "returned"
    /\ UNCHANGED <<now, expirationTime, claims>>
    /\ UNCHANGED <<svars, ivars>>

\* token.go:139: the first read of the clock
ReadExpirationTime ==
    /\ jpc = "expirationTime"
    /\ expirationTime' = now + JWTLifetime * TicksPerSecond
    /\ jpc' = "claims"
    /\ UNCHANGED <<now, claims, jret>>
    /\ UNCHANGED <<svars, ivars>>

\* token.go:140-146: the claims; IssuedAt reads the clock again
NewClaims ==
    /\ jpc = "claims"
    /\ claims' = [Issuer |-> ApplicationID,
                  ExpiresAt |-> NewNumericDate(expirationTime),
                  IssuedAt |-> NewNumericDate(now)]
    /\ jpc' = "SignedString"
    /\ UNCHANGED <<now, expirationTime, jret>>
    /\ UNCHANGED <<svars, ivars>>

\* token.go:147-158: the key is parsed and the token signed
SignedString(res) ==
    /\ jpc = "SignedString"
    /\ jret' = IF res = "ok" THEN JWTReturned(claims, "nil")
               ELSE JWTReturned("", res)
    /\ jpc' = "returned"
    /\ UNCHANGED <<now, expirationTime, claims>>
    /\ UNCHANGED <<svars, ivars>>

NextJWT ==
    \/ ClockTick
    \/ \E ok \in BOOLEAN : GetAppIDAndPrivateKey(ok)
    \/ ReadExpirationTime
    \/ NewClaims
    \/ \E res \in {"ok", "failed to parse private key",
                    "failed to sign private key"} : SignedString(res)

SpecJWT == InitJWT /\ [][NextJWT]_vars

\* ---------------------------------------------------------- properties

\* positions in the current call of worker w at which api was called
CallsOf(w, api) == { i \in 1..Len(trace[w]) : trace[w][i].api = api }

\* remote check runs whose external_id is the name of run n
CheckRunsOf(n) == { i \in 1..Len(checkRuns) : checkRuns[i].ExternalID = n }

RemoteAPIs == {"ListCheckRunsForRef", "CreateCheckRun", "UpdateCheckRun",
               "CreateStatus", "CreateComment"}

\* both goroutines have finished their only call, a check-run write for the
\* same run, no remote call failed, and the remote held no check run of that
\* run before (the cache starts empty)
TwoWritesDone ==
    /\ \A w \in Workers : pc[w] = "done" /\ ~runevent[w].InfoFromRepo
    /\ ~ClientIsNil
    /\ arg["g1"].PipelineRunName = arg["g2"].PipelineRunName
    /\ \A w \in Workers : \A i \in 1..Len(trace[w]) : trace[w][i].ok
    /\ \A i \in 1..nPre : checkRuns[i].ExternalID # arg["g1"].PipelineRunName

\* C1: two concurrent check-run writes for one pipelineRunName, from an empty
\* cache and no matching remote check run, make exactly one CreateCheckRun
\* call in total and update the same check-run id.
C1_OneCreateForTwoWrites ==
    TwoWritesDone =>
       /\ Cardinality(CallsOf("g1", "CreateCheckRun"))
            + Cardinality(CallsOf("g2", "CreateCheckRun")) = 1
       /\ checkRunID["g1"] = checkRunID["g2"]

\* C2: however the remote calls of a sequence of non-overlapping calls end,
\* the remote never holds more than one check run per pipelineRunName.
C2_AtMostOneCheckRunPerRun ==
    \A n \in Names : Cardinality(CheckRunsOf(n)) <= 1

\* C3: in every UpdateCheckRun request the completion timestamp is set iff the
\* conclusion is set, and both are set iff the conclusion of the status
\* update is neither empty nor "pending".
C3_CompletedAtIffConclusion ==
    \A w \in Workers : \A i \in CallsOf(w, "UpdateCheckRun") :
       LET opts == trace[w][i].req.opts
           terminal == arg[w].Conclusion # "" /\ arg[w].Conclusion # "pending"
       IN /\ (opts.CompletedAt # Nil) <=> (opts.Conclusion # Nil)
          /\ (opts.CompletedAt # Nil) <=> terminal
          /\ terminal => opts.Conclusion = arg[w].Conclusion

\* an update was sent for a "pending" conclusion, and one for a terminal one
C3_Witness ==
    /\ CallsOf(Caller, "UpdateCheckRun") # {}
    /\ arg[Caller].Conclusion = "pending"
    /\ arg[Caller].Status = "completed"

\* C4: the state sent to the commit-status API is "pending" when status is
\* "in_progress"; otherwise "skipped" and "neutral" are sent as "success" and
\* any other conclusion unchanged.
C4_CommitStatusState ==
    \A w \in Workers : \A i \in CallsOf(w, "CreateStatus") :
       trace[w][i].req.State =
          IF arg[w].Status = "in_progress" THEN "pending"
          ELSE IF arg[w].Conclusion \in {"skipped", "neutral"} THEN "success"
          ELSE arg[w].Conclusion

\* an in_progress status with conclusion "skipped" was written as a commit status
C4_Witness ==
    /\ CallsOf(Caller, "CreateStatus") # {}
    /\ arg[Caller].Status = "in_progress"
    /\ arg[Caller].Conclusion = "skipped"

\* the commit-status write of the current call of w succeeded and the call
\* asks for a comment
CommentDue(w) ==
    /\ CallsOf(w, "CreateStatus") # {}
    /\ trace[w][1].ok
    /\ arg[w].Status = "completed"
    /\ arg[w].Text # ""
    /\ runevent[w].EventType = "pull_request"

\* C5: a call posts a comment iff its commit-status write has succeeded and
\* status is "completed", text is non-empty and the event is a pull request;
\* the comment comes after the commit-status write and at most once.
C5_CommentIffStatusWritten ==
    \A w \in Workers :
       /\ \A i \in CallsOf(w, "CreateComment") :
             /\ i = 2
             /\ trace[w][1].api = "CreateStatus"
             /\ CommentDue(w)
       /\ Cardinality(CallsOf(w, "CreateComment")) <= 1
       /\ (pc[w] = "done" /\ CommentDue(w)) => CallsOf(w, "CreateComment") # {}

\* a call has returned after posting its comment
C5_Witness ==
    /\ pc[Caller] = "done"
    /\ CallsOf(Caller, "CreateComment") # {}

\* C6: CreateStatus on a provider without client returns an error, issues no
\* remote call and leaves the check-run cache as it was.
C6_NoClientNoCall ==
    ~Client =>
       /\ \A w \in Workers :
             /\ trace[w] = <<>>
             /\ pc[w] \in {"idle", "done"}
             /\ pc[w] = "done" => err[w] # "nil"
       /\ CheckRunIDS = [n \in Names |-> NoID]
       /\ Len(checkRuns) = nPre

\* a call on a provider without client has returned
C6_Witness ==
    /\ ~Client
    /\ pc[Caller] = "done"
    /\ ~runevent[Caller].InfoFromRepo

\* APIs whose call failed during the current call of worker w
FailedCalls(w) == { trace[w][i].api : i \in { j \in 1..Len(trace[w]) : ~trace[w][j].ok } }

\* C7: a call during which a remote call failed returns the error of a failed
\* remote call (none is swallowed), and no remote API is called twice.
C7_EveryErrorReturned ==
    \A w \in Workers :
       /\ (pc[w] = "done" /\ FailedCalls(w) # {}) => err[w] \in FailedCalls(w)
       /\ \A a \in RemoteAPIs : Cardinality(CallsOf(w, a)) <= 1

\* ids of the installation records at positions 1..n
IDsUpTo(n) == { installationData[i] : i \in 1..n }

ExchangedIDs == { exchanges[k] : k \in 1..Len(exchanges) }

\* C8: once the target repository is found for an installation the scan
\* stops: the call has returned that installation's id, no token was exchanged
\* for a later installation, and at most as many tokens were exchanged as the
\* position of that installation.
C8_StopAtFirstMatch ==
    foundAt # 0 =>
       /\ ipc = "returned"
       /\ ret = Returned(enterpriseHost, token, installationData[foundAt], "nil")
       /\ Len(exchanges) <= foundAt
       /\ ExchangedIDs \subseteq IDsUpTo(foundAt)

\* the target was found for an installation that is followed by another one
\* with a token to exchange
C8_Witness ==
    /\ foundAt # 0
    /\ Len(installationData) > foundAt
    /\ installationData[foundAt] > 0
    /\ installationData[foundAt + 1] > 0

\* no remote call of the resolver failed
NoRemoteFailure == ret.err \in {"nil", "installation ID is nil"}

\* the App has two installations or more, both first ones with a token to
\* exchange, and only the second one's token gives access to the target
OnlySecondMatches ==
    /\ Len(installationData) >= 2
    /\ installationData[1] > 0
    /\ installationData[2] > 0
    /\ repoAccess[1] = {installationData[2]}

\* C9: when only the second installation gives access to the target, the call
\* returns the second installation's id and token after exactly two token
\* exchanges, without visiting a third installation.
C9_SecondInstallationFound ==
    (ipc = "returned" /\ OnlySecondMatches /\ NoRemoteFailure) =>
       /\ ret = Returned(enterpriseHost, TokenOf(installationData[2]),
                         installationData[2], "nil")
       /\ exchanges = <<installationData[1], installationData[2]>>

HasNullID == \E i \in 1..Len(installationData) : installationData[i] = NullID

IsErrorReturn == ret.err # "nil" /\ ret = Returned("", NoToken, 0, ret.err)

\* C10 as stated: a null id at any position of the list makes the call return
\* an error with empty host, empty token and zero id, and no token is
\* exchanged for that record.
C10_NullIDAnywhereFails ==
    (ipc = "returned" /\ HasNullID) =>
       /\ IsErrorReturn
       /\ NullID \notin ExchangedIDs

\* C10 amended: no token is ever exchanged for a record with a null id, and a
\* call on a list holding one returns an error with empty host, empty token
\* and zero id unless the target was found at an earlier record, where the
\* scan stopped.
C10_NullIDReachedFails ==
    /\ NullID \notin ExchangedIDs
    /\ (ipc = "returned" /\ HasNullID) =>
          \/ IsErrorReturn
          \/ /\ foundAt # 0
             /\ \A i \in 1..foundAt : installationData[i] # NullID

\* the scan went past a first installation and ended at a null id
C10_Witness ==
    /\ ipc = "returned"
    /\ ret.err = "installation ID is nil"
    /\ idx >= 2
    /\ exchanges # <<>>

\* the token of the last token exchange made, empty when none was made
LastToken ==
    IF exchanges = <<>> THEN NoToken ELSE TokenOf(exchanges[Len(exchanges)])

\* C11: a scan that reaches the end of the installation list, no remote call
\* having failed and the target not found, returns no error, installation id
\* zero and the token of the last token exchange (empty when there was none).
C11_NoMatchReturnsLastToken ==
    (ipc = "returned" /\ idx > Len(installationData)) =>
       /\ foundAt = 0
       /\ ret = Returned(enterpriseHost, LastToken, 0, "nil")

\* a scan over two installations or more, with tokens exchanged, found nothing
C11_Witness ==
    /\ ipc = "returned"
    /\ idx > Len(installationData)
    /\ Len(installationData) >= 2
    /\ Len(exchanges) >= 2
    /\ ret.token # NoToken

\* the fixed table of titles and summary texts, by conclusion
TableConclusions == {"success", "failure", "skipped", "neutral"}

FixedTitle(c) ==
    CASE c = "success" -> "Success"
      [] c = "failure" -> "Failed"
      [] c = "skipped" -> "Skipped"
      [] c = "neutral" -> "Unknown"

FixedText(c) ==
    CASE c = "success" -> "has <b>successfully</b> validated your commit."
      [] c = "failure" -> "has <b>failed</b>."
      [] c = "skipped" -> "is skipping this commit."
      [] c = "neutral" -> "doesn't know what happened with this commit."

\* what the summary of the call of worker w starts with
SummaryPrefix(w) ==
    IF arg[w].OriginalPipelineRunName = "" THEN "PAC "
    ELSE "PAC/" \o arg[w].OriginalPipelineRunName \o " "

\* worker w is in a call that has reached its backend
InBackend(w) == pc[w] # "idle" /\ Client

\* the title and summary every request of the current call of w carries are
\* those of statusOpts
RequestsCarryTitle(w) ==
    /\ \A i \in CallsOf(w, "UpdateCheckRun") :
          /\ trace[w][i].req.opts.Output.Title = statusOpts[w].Title
          /\ trace[w][i].req.opts.Output.Summary = statusOpts[w].Summary
    /\ \A i \in CallsOf(w, "CreateStatus") :
          trace[w][i].req.Description = statusOpts[w].Title

\* C12: for status other than "in_progress" and a conclusion of the table,
\* the backend gets the table's title and a summary that ends in the table's
\* text; for status "in_progress" it gets the title "CI has Started" whatever
\* the conclusion.
C12_FixedTitleTable ==
    \A w \in Workers : InBackend(w) =>
       /\ RequestsCarryTitle(w)
       /\ arg[w].Status = "in_progress" => statusOpts[w].Title = "CI has Started"
       /\ (arg[w].Status # "in_progress" /\ arg[w].Conclusion \in TableConclusions) =>
             /\ statusOpts[w].Title = FixedTitle(arg[w].Conclusion)
             /\ statusOpts[w].Summary =
                   SummaryPrefix(w) \o FixedText(arg[w].Conclusion)

\* an in_progress status with conclusion "failure" and a caller's title has
\* been sent to the check-run API
C12_Witness ==
    /\ CallsOf(Caller, "UpdateCheckRun") # {}
    /\ arg[Caller].Status = "in_progress"
    /\ arg[Caller].Conclusion = "failure"
    /\ arg[Caller].Title = "caller"

\* the call of worker w with the caller's title and summary left empty
BlankTitle(w) == [arg[w] EXCEPT !.Title = "", !.Summary = ""]

\* what CreateStatus hands on for that call
SentForBlank(w) == DeriveStatusOpts(BlankTitle(w), PacOpts)

\* title and summary of the call of w come from the table or from in_progress
HasFixedTitle(w) ==
    arg[w].Status = "in_progress" \/ arg[w].Conclusion \in TableConclusions

\* C13: the title and summary CreateStatus passes on do not depend on those
\* the caller supplied: a call sends what the same call with another title and
\* summary sends, for every status and every conclusion.
C13_CallerTitleNeverSent ==
    \A w \in Workers : InBackend(w) =>
       /\ statusOpts[w].Title = SentForBlank(w).Title
       /\ statusOpts[w].Summary = SentForBlank(w).Summary

\* C13 (amended): for status "in_progress" or a conclusion of the table the
\* title and summary passed on do not depend on the caller's; for any other
\* status with conclusion "pending" or "" the caller's title is passed on
\* as it is and the caller's summary behind the application-name prefix.
C13_CallerTitleSentWithoutTableEntry ==
    \A w \in Workers : InBackend(w) =>
       /\ HasFixedTitle(w) =>
             /\ statusOpts[w].Title = SentForBlank(w).Title
             /\ statusOpts[w].Summary = SentForBlank(w).Summary
       /\ ~HasFixedTitle(w) =>
             /\ statusOpts[w].Title = arg[w].Title
             /\ statusOpts[w].Summary = SummaryPrefix(w) \o arg[w].Summary
             /\ RequestsCarryTitle(w)

\* a queued status with conclusion "pending" and a caller's title has been
\* sent to the commit-status API
C13_Witness ==
    /\ CallsOf(Caller, "CreateStatus") # {}
    /\ arg[Caller].Status = "queued"
    /\ arg[Caller].Conclusion = "pending"
    /\ arg[Caller].Title = "caller"
    /\ trace[Caller][1].req.Description = "caller"

CommitStatusAPIs == {"CreateStatus", "CreateComment"}
CheckRunAPIs == {"ListCheckRunsForRef", "CreateCheckRun", "UpdateCheckRun"}

\* the remote APIs the current call of worker w has called
APIsOf(w) == { trace[w][i].api : i \in 1..Len(trace[w]) }

\* the current call of w has called only the APIs of its event's backend
OneBackend(w) ==
    IF runevent[w].InfoFromRepo
    THEN /\ APIsOf(w) \subseteq CommitStatusAPIs
         /\ pc[w] \in {"createStatusCommit", "CreateComment", "done"}
    ELSE /\ APIsOf(w) \subseteq CheckRunAPIs
         /\ pc[w] \notin {"createStatusCommit", "CreateComment"}

\* a step taken while the caller is in a call for an InfoFromRepo event leaves
\* the check-run cache and the remote check runs as they are
CommitStatusLeavesCheckRuns ==
    (pc[Caller] # "idle" /\ runevent[Caller].InfoFromRepo) =>
        UNCHANGED <<CheckRunIDS, checkRuns>>

\* C14: every CreateStatus call uses exactly one backend: with InfoFromRepo
\* only commit-status and comment calls are issued and the check-run cache
\* and the check runs are left untouched; without it only check-run list,
\* create and update calls are issued and no commit status or comment is
\* written.
C14_ExactlyOneBackend ==
    /\ [](\A w \in Workers : pc[w] # "idle" => OneBackend(w))
    /\ [][CommitStatusLeavesCheckRuns]_vars

\* a call for an InfoFromRepo event has written a commit status and a comment
\* while the cache holds a check run of an earlier call
C14_Witness ==
    /\ pc[Caller] = "done"
    /\ runevent[Caller].InfoFromRepo
    /\ APIsOf(Caller) = CommitStatusAPIs
    /\ \E n \in Names : CheckRunIDS[n] # NoID

\* C15: in every JWT GenerateJWT produces the expiry claim is the issued-at
\* claim plus exactly 300 seconds, also when the clock advances between the
\* two reads of the clock.
C15_ExpiryIsIssuedAtPlusLifetime ==
    (jpc = "returned" /\ jret.err = "nil") =>
        jret.token.ExpiresAt = jret.token.IssuedAt + JWTLifetime

\* the remote check runs of the run and commit the call of worker w is for
RemoteMatches(w) ==
    { i \in 1..Len(checkRuns) :
        /\ checkRuns[i].ExternalID = statusOpts[w].PipelineRunName
        /\ checkRuns[i].HeadSHA = runevent[w].SHA }

\* the cache entry of the run the call of w is for
Cached(w) == CheckRunIDS[statusOpts[w].PipelineRunName]

\* C16: the check-run path resolves the identifier in a fixed order: on a
\* cache hit it issues neither a list nor a create; on a miss it lists the
\* check runs of the commit and uses the ID of one whose external_id is the
\* run's name, without a create; only when the cache and the remote both hold
\* none does it issue a create, with status "in_progress" and the run's name
\* as external_id.
C16_ResolutionOrder ==
    LET w == Caller
    IN /\ (pc[w] = "Store" /\ Cached(w) # NoID) =>
             /\ trace[w] = <<>>
             /\ checkRunID[w] = Cached(w)
       /\ pc[w] \in {"getExistingCheckRunID", "createCheckRunStatus"} =>
             Cached(w) = NoID
       /\ (pc[w] = "Store" /\ Cached(w) = NoID /\ Len(trace[w]) = 1) =>
             /\ trace[w][1].api = "ListCheckRunsForRef"
             /\ checkRunID[w] \in RemoteMatches(w)
       /\ pc[w] = "createCheckRunStatus" =>
             /\ Len(trace[w]) = 1
             /\ trace[w][1].api = "ListCheckRunsForRef"
             /\ RemoteMatches(w) = {}
       /\ \A i \in CallsOf(w, "CreateCheckRun") :
             /\ i = 2
             /\ trace[w][i].req.Status = "in_progress"
             /\ trace[w][i].req.ExternalID = arg[w].PipelineRunName

\* the current call of worker w has called CreateCheckRun with outcome ok
Created(w, ok) ==
    \E i \in CallsOf(w, "CreateCheckRun") : trace[w][i].ok = ok

\* C17: on the check-run path the resolved identifier is in the cache under
\* the run's name before the update is issued: after a create that succeeded
\* the cache holds the created ID whether the update succeeds or fails, a
\* call that finds the ID in the cache issues no list and no create and
\* updates that check run, and a create that failed leaves the cache without
\* an entry.
C17_StoredBeforeUpdate ==
    \A w \in Workers : pc[w] # "idle" =>
       /\ \A i \in CallsOf(w, "UpdateCheckRun") :
             /\ trace[w][i].req.ID # NoID
             /\ Cached(w) = trace[w][i].req.ID
       /\ (Created(w, TRUE) /\ pc[w] \in {"UpdateCheckRun", "done"}) =>
             Cached(w) = Len(checkRuns)
       /\ Created(w, FALSE) =>
             /\ Cached(w) = NoID
             /\ pc[w] = "done"
             /\ CallsOf(w, "UpdateCheckRun") = {}
       /\ pc[w] \in {"getExistingCheckRunID", "createCheckRunStatus"} =>
             Cached(w) = NoID
       /\ pc[w] = "UpdateCheckRun" => checkRunID[w] = Cached(w)

\* a create has succeeded, the update after it has failed, and the cache
\* holds the ID of the check run created
C17_Witness ==
    /\ pc[Caller] = "done"
    /\ Created(Caller, TRUE)
    /\ err[Caller] = "UpdateCheckRun"
    /\ Cached(Caller) = Len(checkRuns)
    /\ Len(checkRuns) > nPre

\* the repository list, once fetched, is the one every later step has
RepoListKept == repoList # Nil => repoList' = repoList

\* C18: within one GetAndUpdateInstallationID call the repository list is
\* fetched from the remote at most once, however many installations are
\* visited and whatever the list holds (an empty list too); later iterations
\* use the list fetched first.
C18_RepoListFetchedOnce ==
    /\ [](fetches <= 1 /\ (repoList # Nil => fetches = 1))
    /\ [][RepoListKept]_vars

\* two installations have been visited, each after a token exchange, with an
\* empty repository list fetched once
C18_Witness ==
    /\ ipc = "returned"
    /\ idx >= 3
    /\ Len(exchanges) >= 2
    /\ repoList = <<>>
    /\ fetches = 1

\* the positions of itrace at which api was called
ICallsOf(api) == { i \in 1..Len(itrace) : itrace[i].api = api }

\* a call of api has failed
FailedAt(api) == \E i \in ICallsOf(api) : ~itrace[i].ok

\* the installation listing was answered with a status of 300 or more
NonOKAnswer ==
    \E i \in ICallsOf("GetReponse") :
        itrace[i].ok /\ itrace[i].req.StatusCode >= 300

\* C19: when the installation-listing request fails or is answered with a
\* status of 300 or more, the call returns an error with empty host, empty
\* token and installation ID zero, without any token exchange or repository
\* fetch; a token exchange or a repository fetch that fails ends the scan
\* with an error and the same zero values, whatever token was obtained
\* before.
C19_RemoteFailureReturnsZeroValues ==
    /\ \A i \in 1..Len(itrace) : ~itrace[i].ok => i = Len(itrace)
    /\ (FailedAt("GetReponse") \/ NonOKAnswer) =>
          /\ ipc = "returned"
          /\ IsErrorReturn
          /\ ICallsOf("GetAppToken") = {} /\ exchanges = <<>>
          /\ ICallsOf("ListRepos") = {} /\ fetches = 0
    /\ (FailedAt("GetAppToken") \/ FailedAt("ListRepos")) =>
          /\ ipc = "returned"
          /\ IsErrorReturn

\* the second token exchange has failed after the first gave a token: the
\* call has returned an error and no token
C19_Witness ==
    /\ ipc = "returned"
    /\ Len(exchanges) = 2
    /\ FailedAt("GetAppToken")
    /\ token = TokenOf(exchanges[1])
    /\ ret.token = NoToken

\* the installation ID of the token exchange that succeeded last, NullID when
\* none has
LastExchanged ==
    LET done == { i \in ICallsOf("GetAppToken") : itrace[i].ok }
    IN IF done = {} THEN NullID
       ELSE itrace[CHOOSE i \in done : \A j \in done : j <= i].req.ID

\* C20: a call that returns without error and with an installation ID other
\* than zero returns the token of the exchange made for that installation,
\* not one of an earlier installation; a match at an installation whose ID is
\* zero is returned as installation ID zero, as a scan without match is.
C20_TokenOfReturnedInstallation ==
    (ipc = "returned" /\ ret.err = "nil") =>
       /\ ret.id # 0 =>
             /\ foundAt # 0
             /\ installationData[foundAt] = ret.id
             /\ LastExchanged = ret.id
             /\ ret.token = TokenOf(ret.id)
       /\ (foundAt # 0 /\ installationData[foundAt] = 0) => ret.id = 0
       /\ foundAt = 0 => ret.id = 0

\* the call has returned an installation other than zero with the token
\* exchanged for it
C20_Witness ==
    /\ ipc = "returned"
    /\ ret.err = "nil"
    /\ ret.id # 0
    /\ ret.token = TokenOf(ret.id)
    /\ Len(installationData) >= 2

====
